---- MODULE Spec2Model ----
(***************************************************************************)
(* Model of the time-based debouncer of src/src/timed.rs (TimedDebouncer)  *)
(* together with the value-presence containers of src/src/value.rs.        *)
(*                                                                         *)
(* Time is a natural number of clock ticks.  The time source is the        *)
(* variable clock; every call of M::now() returns its current reading.     *)
(* The clock may advance between two calls of the debouncer (Tick) and     *)
(* between the two M::now() calls that one update makes (the input d of    *)
(* Update).                                                                *)
(*                                                                         *)
(* An Option<T> is modelled as a set with at most one element.             *)
(***************************************************************************)
EXTENDS Integers, FiniteSets, Sequences, TLC

\* ---------------------------------------------------------------- bounds
NumValues == 3      \* raw values are 0 .. NumValues-1
MaxD      == 2      \* debounce durations are 0 .. MaxD
MaxTime   == 5      \* the clock never passes MaxTime
MaxDrift  == 1      \* largest clock advance inside one update call

Values    == 0 .. (NumValues - 1)
Durations == 0 .. MaxD

\* ------------------------------------------------- value.rs: the containers
InitializedValue   == "InitializedValue"
UninitializedValue == "UninitializedValue"

None     == {}
Some(v)  == {v}
TheValue(o) == CHOOSE v \in o : TRUE

VARIABLES
  variant,           \* the type parameter V of TimedDebouncer
  last_stable,       \* field, a container (its inner value: T or Option<T>)
  last_value,        \* field, a container
  last_change_time,  \* field, an instant
  debounce_time,     \* field, a duration
  clock,             \* the current reading of the time source
  owner,             \* what holds the debouncer: the caller or a DebouncedInput
  ret,               \* what the last call returned
  call,              \* history: the last call made
  pre,               \* history: the fields before the last call
  hist               \* history: facts about the calls made so far

vars == <<variant, last_stable, last_value, last_change_time, debounce_time,
          clock, owner, ret, call, pre, hist>>

\* Value::try_get
try_get(c) == IF variant = InitializedValue THEN Some(c) ELSE c
\* Deref::deref, the inner value of a container (type V::V)
deref(c) == c
\* variant of from that stores no value in an UninitializedValue
from_Nothing(v) == IF variant = InitializedValue THEN v ELSE None

\* From<T> for the container, and for V::V
from(v) == IF variant = InitializedValue THEN v ELSE Some(v)
\* Default for UninitializedValue / Option<T>
default == None

\* ------------------------------------------------------ timed.rs: State
Stable(value) == [tag |-> "Stable", value |-> value]
Unstable(stable, most_recent) ==
  [tag |-> "Unstable", stable |-> stable, most_recent |-> most_recent]
Transitioned(stable, previous_stable) ==
  [tag |-> "Transitioned", stable |-> stable, previous_stable |-> previous_stable]

\* variant of stable_value that projects the previous stable value out of
\* Transitioned
stable_value_Previous(state) ==
  CASE state.tag = "Stable"       -> from(state.value)
    [] state.tag = "Unstable"     -> state.stable
    [] state.tag = "Transitioned" -> state.previous_stable

\* State::stable_value
stable_value(state) ==
  CASE state.tag = "Stable"       -> from(state.value)
    [] state.tag = "Unstable"     -> state.stable
    [] state.tag = "Transitioned" -> from(state.stable)

\* the debouncer as a record
Self == [last_stable |-> last_stable, last_value |-> last_value,
         last_change_time |-> last_change_time, debounce_time |-> debounce_time]

\* variant of ReturnsToStable without the return-to-stable branch
ReturnsToStable_Never(self, new_value) == FALSE

\* variant of ReturnsToStable that compares with the last raw value
ReturnsToStable_LastValue(self, new_value) ==
  /\ try_get(self.last_value) # None
  /\ TheValue(try_get(self.last_value)) = new_value

\* update, lines 126-127: the input is the recorded stable value
ReturnsToStable(self, new_value) ==
  /\ try_get(self.last_stable) # None
  /\ TheValue(try_get(self.last_stable)) = new_value

\* variant of ChangeDetected that restarts the clock on the first value only
ChangeDetected_FirstOnly(self, new_value) ==
  try_get(self.last_value) = None

\* variant of ChangeDetected that restarts the clock on every call
ChangeDetected_Always(self, new_value) == TRUE

\* variant of ChangeDetected without the first-value branch
ChangeDetected_NoFirst(self, new_value) ==
  /\ try_get(self.last_value) # None
  /\ TheValue(try_get(self.last_value)) # new_value

\* update, lines 133-141: the change clock restarts
ChangeDetected(self, new_value) ==
  IF try_get(self.last_value) # None
  THEN TheValue(try_get(self.last_value)) # new_value
  ELSE TRUE

\* variant of Elapsed with a strict comparison
Elapsed_Strict(now, change_time, duration) == now > change_time + duration

\* update, line 145: the debounce time has elapsed
Elapsed(now, change_time, duration) == now >= change_time + duration

\* variant of update that does not record the raw value on a return to the
\* stable value
update_ReturnKeepsRaw(self, new_value, r1, r2) ==
  IF ReturnsToStable(self, new_value)
  THEN [self  |-> self,
        state |-> Stable(TheValue(try_get(self.last_stable))),
        nows  |-> 0]
  ELSE LET changed == ChangeDetected(self, new_value)
           lct     == IF changed THEN r1 ELSE self.last_change_time
           now     == IF changed THEN r2 ELSE r1
           n       == IF changed THEN 2 ELSE 1
       IN IF Elapsed(now, lct, self.debounce_time)
          THEN [self  |-> [self EXCEPT !.last_change_time = lct,
                                       !.last_value = from(new_value),
                                       !.last_stable = from(new_value)],
                state |-> Transitioned(new_value, deref(self.last_stable)),
                nows  |-> n]
          ELSE [self  |-> [self EXCEPT !.last_change_time = lct,
                                       !.last_value = from(new_value)],
                state |-> Unstable(deref(self.last_stable), from(new_value)),
                nows  |-> n]

\* variant of update that reports a promotion without storing the new
\* stable value
update_KeepsStable(self, new_value, r1, r2) ==
  IF ReturnsToStable(self, new_value)
  THEN [self  |-> [self EXCEPT !.last_value = from(new_value)],
        state |-> Stable(TheValue(try_get(self.last_stable))),
        nows  |-> 0]
  ELSE LET changed == ChangeDetected(self, new_value)
           lct     == IF changed THEN r1 ELSE self.last_change_time
           now     == IF changed THEN r2 ELSE r1
           n       == IF changed THEN 2 ELSE 1
       IN IF Elapsed(now, lct, self.debounce_time)
          THEN [self  |-> [self EXCEPT !.last_change_time = lct,
                                       !.last_value = from(new_value)],
                state |-> Transitioned(new_value, deref(self.last_stable)),
                nows  |-> n]
          ELSE [self  |-> [self EXCEPT !.last_change_time = lct,
                                       !.last_value = from(new_value)],
                state |-> Unstable(deref(self.last_stable), from(new_value)),
                nows  |-> n]

\* TimedDebouncer::update.  r1 and r2 are the readings the first and the
\* second call of M::now() would get; the result holds the new fields, the
\* returned State and the number of M::now() calls made.
update(self, new_value, r1, r2) ==
  IF ReturnsToStable(self, new_value)
  THEN [self  |-> [self EXCEPT !.last_value = from(new_value)],
        state |-> Stable(TheValue(try_get(self.last_stable))),
        nows  |-> 0]
  ELSE LET changed == ChangeDetected(self, new_value)
           lct     == IF changed THEN r1 ELSE self.last_change_time
           now     == IF changed THEN r2 ELSE r1
           n       == IF changed THEN 2 ELSE 1
       IN IF Elapsed(now, lct, self.debounce_time)
          THEN [self  |-> [self EXCEPT !.last_change_time = lct,
                                       !.last_value = from(new_value),
                                       !.last_stable = from(new_value)],
                state |-> Transitioned(new_value, deref(self.last_stable)),
                nows  |-> n]
          ELSE [self  |-> [self EXCEPT !.last_change_time = lct,
                                       !.last_value = from(new_value)],
                state |-> Unstable(deref(self.last_stable), from(new_value)),
                nows  |-> n]

\* variant of read that reads the clock when no value was recorded
read_TouchesClock(self, r1, r2) ==
  IF try_get(self.last_value) # None
  THEN update(self, TheValue(try_get(self.last_value)), r1, r2)
  ELSE [self |-> [self EXCEPT !.last_change_time = r1],
        state |-> Unstable(default, default), nows |-> 1]

\* variant of read that updates a copy of the debouncer
read_OnCopy(self, r1, r2) ==
  IF try_get(self.last_value) # None
  THEN [update(self, TheValue(try_get(self.last_value)), r1, r2)
          EXCEPT !.self = self]
  ELSE [self |-> self, state |-> Unstable(default, default), nows |-> 0]

\* TimedDebouncer::read
read(self, r1, r2) ==
  IF try_get(self.last_value) # None
  THEN update(self, TheValue(try_get(self.last_value)), r1, r2)
  ELSE [self |-> self, state |-> Unstable(default, default), nows |-> 0]

\* TimedDebouncer::read_value
read_value(self, r1, r2) ==
  LET r == read(self, r1, r2)
  IN  [self |-> r.self, value |-> stable_value(r.state), nows |-> r.nows]

\* variant of read_stable that returns the last raw value
read_stable_LastValue(self) == deref(self.last_value)

\* TimedDebouncer::read_stable
read_stable(self) == deref(self.last_stable)

\* ---------------------------------------------- wrapper.rs: DebouncedInput
\* who owns the debouncer: the caller itself, a DebouncedInput over some
\* Input<T>, or a DebouncedInput over an InputPin (T = Result<PinState, _>)
TimedDebouncer == "TimedDebouncer"
DebouncedInput == "DebouncedInput"
DebouncedPin   == "DebouncedPin"

\* PinState::Low and PinState::High, as values of T
PinLow  == 0
PinHigh == 1
PinStates == {PinLow, PinHigh}

\* the values the wrapped source can return
SourceValues == IF owner = DebouncedPin THEN PinStates ELSE Values

\* variant of DebouncedInput_read that re-evaluates the debouncer without
\* feeding it the value read from the source
DebouncedInput_read_Stale(self, source_value, r1, r2) ==
  LET u == read(self, r1, r2)
  IN  [self |-> u.self, state |-> u.state, nows |-> u.nows, source_reads |-> 1]

\* DebouncedInput::read: source_value is what input.read() returns
DebouncedInput_read(self, source_value, r1, r2) ==
  LET u == update(self, source_value, r1, r2)
  IN  [self |-> u.self, state |-> u.state, nows |-> u.nows, source_reads |-> 1]

\* variant of DebouncedInput_read_stable that returns the last raw value
DebouncedInput_read_stable_Raw(self) == deref(self.last_value)

\* DebouncedInput::read_stable
DebouncedInput_read_stable(self) == read_stable(self)

\* InputPin::is_high and InputPin::is_low for DebouncedInput
is_high(self) == DebouncedInput_read_stable(self) = PinHigh
is_low(self)  == DebouncedInput_read_stable(self) = PinLow

\* ------------------------------------------------- the scenario of the spec
\* start = false, D = 10 ms: the calls update(value) @ time in ms, with
\* false = 0 and true = 1, and the outcomes the spec gives for them
ScenarioD == 10
ScenarioCalls == << <<0, 0>>, <<1, 1>>, <<0, 2>>, <<1, 3>>, <<1, 14>>, <<1, 15>> >>
ScenarioOutcomes == << Stable(0), Unstable(0, 1), Stable(0), Unstable(0, 1),
                       Transitioned(1, 0), Stable(1) >>
ScenarioEnd == ScenarioCalls[Len(ScenarioCalls)][2]

\* the clock stops at Horizon
Horizon == IF debounce_time = ScenarioD THEN ScenarioEnd ELSE MaxTime

\* ------------------------------------------------------------ construction
\* the history record after construction at time t with initial value o
\* (None for new_unknown), vv being the inner value of last_stable
InitHist(t, o, vv) ==
  [constructed_at |-> t, init_value |-> o,
   run_value |-> None, run_start |-> t, run_prev |-> None,
   raw_change_time |-> t, unstable_change_time |-> t,
   promoted |-> vv,
   seen |-> FALSE, arg |-> None, t0 |-> t, crossed |-> FALSE,
   same |-> TRUE, reads |-> FALSE, late |-> 0,
   back_value |-> None, back_start |-> 0,
   settled |-> None, since |-> 0,
   component |-> vv,
   scn |-> IF debounce_time = ScenarioD THEN 0 ELSE -1]

\* TimedDebouncer::new
new(initial_value, duration) ==
  /\ variant = InitializedValue
  /\ last_stable = initial_value
  /\ last_value = initial_value
  /\ last_change_time = clock
  /\ debounce_time = duration
  /\ hist = InitHist(clock, Some(initial_value), initial_value)

\* TimedDebouncer::new_unknown
new_unknown(duration) ==
  /\ variant = UninitializedValue
  /\ last_stable = default
  /\ last_value = default
  /\ last_change_time = clock
  /\ debounce_time = duration
  /\ hist = InitHist(clock, None, default)

\* DebouncedInput::new: source_value is what the one input.read() returns
DebouncedInput_new(source_value, duration) ==
  new(source_value, duration)

\* the record of the constructor call
NewCall == [op |-> "new", arg |-> None, now_calls |-> 1, at |-> clock,
            ret_at |-> clock, inner |-> "None",
            source_reads |-> IF owner = TimedDebouncer THEN 0 ELSE 1]

Init ==
  /\ clock = 0
  /\ \E duration \in Durations :
       \/ /\ owner = TimedDebouncer
          /\ \/ \E initial_value \in Values : new(initial_value, duration)
             \/ new_unknown(duration)
       \/ /\ owner \in {DebouncedInput, DebouncedPin}
          /\ \E source_value \in SourceValues :
               DebouncedInput_new(source_value, duration)
  /\ ret = [tag |-> "None"]
  /\ call = NewCall
  /\ pre = Self

\* construction for the scenario of the spec, D = 10 ms and start = false:
\* a bare debouncer, or a DebouncedInput over a pin that reads Low
ScenarioInit ==
  /\ clock = 0
  /\ \/ /\ owner = TimedDebouncer
        /\ new(ScenarioCalls[1][1], ScenarioD)
     \/ /\ owner = DebouncedPin
        /\ DebouncedInput_new(PinLow, ScenarioD)
  /\ ret = [tag |-> "None"]
  /\ call = NewCall
  /\ pre = Self

\* ------------------------------------------------------------------ calls
Min(a, b) == IF a < b THEN a ELSE b

\* The history follows the calls made from the first update on, as long as
\* every update carries the value of the first one (same): the first value
\* (arg), the entry time of the first update (t0), whether the clock crossed
\* t0 + debounce_time inside that first update (crossed), whether read or
\* read_value was called since (reads), and the number, capped at 2, of
\* update/read/read_value calls entered at a time >= t0 + debounce_time
\* (late).  Once same is FALSE these fields are reset.
\* the late-call count of the history after a call entered at the current time
Late == IF hist.seen /\ hist.same /\ clock >= hist.t0 + debounce_time
        THEN Min(hist.late + 1, 2) ELSE hist.late

\* the promoted value after a call that returned state
Promoted(state) ==
  IF state.tag = "Transitioned" THEN from(state.stable) ELSE hist.promoted

\* The history keeps the value and the entry time of the first update of the
\* current run of updates with equal values (run_value, run_start), and the
\* value of the run before it when neither run is of the stable value
\* (run_prev, None otherwise).
\* The history also keeps: the value and the start of the run of equal
\* inputs that was pending when the input last returned to the stable value
\* (back_value, back_start), reset when a run of another value starts, and
\* kept for the debouncers of the scenario (debounce_time = ScenarioD); the
\* value of the last promotion (settled) until an update carries another
\* value, and whether a call was made since that promotion (since); the
\* stable component of the last outcome (component); and how many calls of
\* ScenarioCalls have been made, in order and with no other debouncer call
\* in between (scn, -1 when the calls made are not a prefix of them).

\* the history after update(new_value) entered at the current time returned
\* state, the second clock reading, if made, being clock + d
HistAfterUpdate(new_value, state, nows, d) ==
  LET newrun == hist.run_value # Some(new_value)
      rawchange == try_get(last_value) # Some(new_value)
      departs == /\ try_get(last_stable) # Some(new_value)
                 /\ try_get(last_value) # Some(new_value)
      same == hist.seen => (hist.same /\ hist.arg = Some(new_value))
      returns == /\ debounce_time = ScenarioD
                 /\ try_get(hist.promoted) = Some(new_value)
                 /\ hist.run_value \notin {None, Some(new_value)}
      keeps == hist.settled = Some(new_value)
  IN [hist EXCEPT
       !.run_value = Some(new_value),
       !.run_start = IF newrun THEN clock ELSE @,
       !.run_prev = IF ~newrun THEN @
                    ELSE IF /\ hist.run_value # try_get(last_stable)
                            /\ Some(new_value) # try_get(last_stable)
                         THEN hist.run_value ELSE None,
       !.raw_change_time = IF rawchange THEN clock ELSE @,
       !.unstable_change_time = IF departs THEN clock ELSE @,
       !.promoted = Promoted(state),
       !.seen = TRUE,
       !.same = same,
       !.arg = IF ~same THEN None ELSE IF hist.seen THEN @ ELSE Some(new_value),
       !.t0 = IF ~same THEN 0 ELSE IF hist.seen THEN @ ELSE clock,
       !.crossed = IF ~same THEN FALSE ELSE IF hist.seen THEN @
                   ELSE nows = 2 /\ clock + d >= clock + debounce_time,
       !.reads = IF ~same THEN FALSE ELSE @,
       !.late = IF ~same THEN 0 ELSE Late,
       !.back_value = IF returns THEN hist.run_value
                      ELSE IF newrun /\ @ # Some(new_value) THEN None ELSE @,
       !.back_start = IF returns THEN hist.run_start
                      ELSE IF newrun /\ hist.back_value # Some(new_value) THEN 0 ELSE @,
       !.settled = IF keeps THEN @
                   ELSE IF state.tag = "Transitioned" THEN Some(state.stable)
                   ELSE None,
       !.since = IF keeps THEN 1 ELSE 0,
       !.component = stable_value(state),
       !.scn = IF /\ hist.scn >= 0 /\ hist.scn < Len(ScenarioCalls)
                  /\ ScenarioCalls[hist.scn + 1] = <<new_value, clock>>
               THEN hist.scn + 1 ELSE -1]

\* the history after read() or read_value() returned, or computed, state
HistAfterRead(state) ==
  [hist EXCEPT
     !.promoted = Promoted(state),
     !.reads = hist.seen /\ hist.same,
     !.late = Late,
     !.settled = IF @ # None THEN @
                 ELSE IF state.tag = "Transitioned" THEN Some(state.stable)
                 ELSE None,
     !.since = IF hist.settled # None THEN 1 ELSE 0,
     !.component = stable_value(state),
     !.scn = -1]

\* the fields, the clock and the call record after a call with result res
\* whose second clock reading, if made, is clock + d; inner is the tag of the
\* State the call produced and reads the number of reads of the source
Effect(op, arg, res, d, inner, reads) ==
  /\ last_stable' = res.self.last_stable
  /\ last_value' = res.self.last_value
  /\ last_change_time' = res.self.last_change_time
  /\ debounce_time' = res.self.debounce_time
  /\ clock' = IF res.nows = 2 THEN clock + d ELSE clock
  /\ call' = [op |-> op, arg |-> arg, now_calls |-> res.nows, at |-> clock,
              ret_at |-> IF res.nows = 2 THEN clock + d ELSE clock,
              inner |-> inner, source_reads |-> reads]
  /\ pre' = Self
  /\ UNCHANGED <<variant, owner>>

\* debouncer.update(new_value); the clock advances by d between the two
\* M::now() calls when both are made (d = 0 when fewer are made)
Update(new_value, d) ==
  /\ owner = TimedDebouncer
  /\ clock + d <= Horizon
  /\ LET res == update(Self, new_value, clock, clock + d)
     IN /\ d > 0 => res.nows = 2
        /\ Effect("update", Some(new_value), res, d, res.state.tag, 0)
        /\ ret' = res.state
        /\ hist' = HistAfterUpdate(new_value, res.state, res.nows, d)

\* debouncer.read()
Read ==
  /\ owner = TimedDebouncer
  /\ LET res == read(Self, clock, clock)
     IN /\ Effect("read", None, res, 0, res.state.tag, 0)
        /\ ret' = res.state
        /\ hist' = HistAfterRead(res.state)

\* debouncer.read_value()
ReadValue ==
  /\ owner = TimedDebouncer
  /\ LET res == read_value(Self, clock, clock)
         inner == read(Self, clock, clock).state
     IN /\ Effect("read_value", None, res, 0, inner.tag, 0)
        /\ ret' = [tag |-> "Value", option |-> res.value]
        /\ hist' = HistAfterRead(inner)

\* debouncer.read_stable()
ReadStable ==
  /\ owner = TimedDebouncer
  /\ Effect("read_stable", None, [self |-> Self, nows |-> 0], 0, "None", 0)
  /\ ret' = [tag |-> "Value", option |-> read_stable(Self)]
  /\ UNCHANGED hist

\* debounced.read(), the source returning source_value
InputRead(source_value, d) ==
  /\ owner \in {DebouncedInput, DebouncedPin}
  /\ clock + d <= Horizon
  /\ LET res == DebouncedInput_read(Self, source_value, clock, clock + d)
     IN /\ d > 0 => res.nows = 2
        /\ Effect("DebouncedInput::read", Some(source_value), res, d,
                  res.state.tag, res.source_reads)
        /\ ret' = res.state
        /\ hist' = HistAfterUpdate(source_value, res.state, res.nows, d)

\* debounced.read_stable()
InputReadStable ==
  /\ owner \in {DebouncedInput, DebouncedPin}
  /\ Effect("DebouncedInput::read_stable", None, [self |-> Self, nows |-> 0],
            0, "None", 0)
  /\ ret' = [tag |-> "Value", option |-> DebouncedInput_read_stable(Self)]
  /\ UNCHANGED hist

\* debounced.is_high()
IsHigh ==
  /\ owner = DebouncedPin
  /\ Effect("is_high", None, [self |-> Self, nows |-> 0], 0, "None", 0)
  /\ ret' = [tag |-> "Bool", flag |-> is_high(Self)]
  /\ UNCHANGED hist

\* debounced.is_low()
IsLow ==
  /\ owner = DebouncedPin
  /\ Effect("is_low", None, [self |-> Self, nows |-> 0], 0, "None", 0)
  /\ ret' = [tag |-> "Bool", flag |-> is_low(Self)]
  /\ UNCHANGED hist

\* the time source advances by one tick between two calls
Tick ==
  /\ clock < Horizon
  /\ clock' = clock + 1
  /\ call' = [op |-> "tick", arg |-> None, now_calls |-> 0, at |-> clock,
              ret_at |-> clock, inner |-> "None", source_reads |-> 0]
  /\ ret' = [tag |-> "None"]
  /\ pre' = Self
  /\ UNCHANGED <<variant, owner, last_stable, last_value, last_change_time,
                 debounce_time, hist>>

Next ==
  \/ \E new_value \in Values, d \in 0 .. MaxDrift : Update(new_value, d)
  \/ Read
  \/ ReadValue
  \/ ReadStable
  \/ \E source_value \in SourceValues, d \in 0 .. MaxDrift :
       InputRead(source_value, d)
  \/ InputReadStable
  \/ IsHigh
  \/ IsLow
  \/ Tick

Spec == Init /\ [][Next]_vars

\* the debouncers of the scenario of the spec
ScenarioSpec == ScenarioInit /\ [][Next]_vars

TypeOK ==
  /\ variant \in {InitializedValue, UninitializedValue}
  /\ clock \in 0 .. Horizon
  /\ last_change_time \in 0 .. clock
  /\ debounce_time \in Durations \cup {ScenarioD}
  /\ owner \in {TimedDebouncer, DebouncedInput, DebouncedPin}
  /\ owner # TimedDebouncer => variant = InitializedValue
  /\ try_get(last_stable) \in {None} \cup {Some(v) : v \in Values}
  /\ try_get(last_value) \in {None} \cup {Some(v) : v \in Values}

\* ------------------------------------------------------------- properties
IsUpdate == call.op = "update"
IsRead   == call.op = "read"
\* the input of the last update call
Arg == TheValue(call.arg)
\* the fields are those before the last call
FieldsUnchanged == Self = pre

\* C1: a call returns Transitioned{V} only if the raw input has been V in
\* every update since an update made at least debounce_time before the
\* return; an update with a value other than the stable one that returns
\* before the current run of equal inputs is debounce_time old is Unstable.
C1_HeldForDebounce ==
  /\ (IsUpdate \/ IsRead) /\ ret.tag = "Transitioned" =>
       /\ hist.run_value = Some(ret.stable)
       /\ hist.run_start + debounce_time <= call.ret_at
  /\ (IsUpdate /\ try_get(pre.last_stable) # call.arg
        /\ call.ret_at < hist.run_start + debounce_time) =>
       ret = Unstable(deref(pre.last_stable), from(Arg))

\* C1 witness: V0, then V1, then V2 held for exactly debounce_time > 0
C1_Witness ==
  /\ IsUpdate /\ ret.tag = "Transitioned" /\ debounce_time > 0
  /\ variant = InitializedValue
  /\ hist.run_prev # None /\ hist.run_prev # hist.init_value
  /\ Some(pre.last_stable) = hist.init_value
  /\ call.ret_at = hist.run_start + debounce_time

\* the calls so far are updates with one value, different from the initial
\* one, the first of which returned before the debounce time had elapsed
OnlyUpdatesOfOneValue ==
  /\ hist.seen /\ hist.same /\ ~hist.reads /\ ~hist.crossed

C3_ReturnToStable ==
  /\ (IsUpdate /\ try_get(pre.last_stable) = call.arg) =>
       /\ ret = Stable(Arg)
       /\ last_stable = pre.last_stable
       /\ last_change_time = pre.last_change_time
       /\ last_value = from(Arg)
       /\ call.now_calls = 0 /\ clock = call.at
  /\ (IsUpdate /\ variant = InitializedValue /\ hist.same
        /\ hist.arg = hist.init_value) =>
       /\ ret = Stable(Arg)
       /\ last_change_time = hist.constructed_at

\* C3 witness: return to the stable value while another value was pending
\* inside the debounce window
C3_Witness ==
  /\ IsUpdate /\ ret.tag = "Stable"
  /\ try_get(pre.last_value) # try_get(pre.last_stable)
  /\ call.at < pre.last_change_time + debounce_time
  /\ call.at > pre.last_change_time

\* C4 as stated: last_change_time is the time of the last update whose
\* input differed from the input before it
C4_Original == last_change_time = hist.raw_change_time

\* C4: last_change_time is the entry time of the last update whose input
\* differed from the stable value and from the raw value recorded before
\* it (or was the first input of an Unknown-capable debouncer), and the
\* construction time if there was none.
C4_ChangeTime == last_change_time = hist.unstable_change_time

\* C4 witness: a return to the stable value that kept an older change time
C4_Witness ==
  /\ IsUpdate /\ ret.tag = "Stable"
  /\ try_get(pre.last_value) # try_get(pre.last_stable)
  /\ hist.raw_change_time > last_change_time
  /\ last_change_time > hist.constructed_at

C6_ReadBeforeUpdate ==
  (IsRead /\ try_get(pre.last_value) = None) =>
     /\ ret = Unstable(None, None)
     /\ call.now_calls = 0 /\ clock = call.at
     /\ FieldsUnchanged

\* C6 witness: such a read after the clock has advanced
C6_Witness ==
  /\ IsRead /\ try_get(pre.last_value) = None
  /\ call.at > hist.constructed_at

\* C7: read() with a recorded raw value v gives the outcome and the fields
\* that update(v) gives at the same clock reading: Stable when v is the
\* stable value, promotion when debounce_time has elapsed, else Unstable.
C7_ReadIsUpdate ==
  (IsRead /\ try_get(pre.last_value) # None) =>
     LET v == TheValue(try_get(pre.last_value))
         u == update(pre, v, call.at, call.at)
     IN /\ ret = u.state /\ Self = u.self /\ call.now_calls = u.nows
        /\ try_get(pre.last_stable) = Some(v) => ret = Stable(v) /\ FieldsUnchanged
        /\ (try_get(pre.last_stable) # Some(v)
              /\ call.at >= pre.last_change_time + debounce_time) =>
             /\ ret = Transitioned(v, deref(pre.last_stable))
             /\ last_stable = from(v)
        /\ (try_get(pre.last_stable) # Some(v)
              /\ call.at < pre.last_change_time + debounce_time) =>
             /\ ret = Unstable(deref(pre.last_stable), from(v))
             /\ FieldsUnchanged

\* C7 witness: a read promoted the pending value
C7_Witness ==
  /\ IsRead /\ ret.tag = "Transitioned" /\ debounce_time > 0
  /\ last_stable # pre.last_stable

\* C8: read_stable() changes no field, reads no clock and returns the value
\* of the most recent promotion (the initial value, or None, before one).
C8_ReadStablePure ==
  call.op = "read_stable" =>
     /\ FieldsUnchanged
     /\ call.now_calls = 0 /\ clock = call.at
     /\ ret = [tag |-> "Value", option |-> hist.promoted]

\* C8 witness: read_stable after a promotion, with another value pending
C8_Witness ==
  /\ call.op = "read_stable"
  /\ Some(hist.promoted) # Some(deref(last_value))
  /\ try_get(last_stable) # hist.init_value

\* C9: with debounce_time = 0 an update with a value other than the stable
\* one returns Transitioned with that value, and no update is Unstable.
C9_ZeroDuration ==
  (IsUpdate /\ debounce_time = 0) =>
     /\ ret.tag # "Unstable"
     /\ try_get(pre.last_stable) # call.arg =>
          /\ ret = Transitioned(Arg, deref(pre.last_stable))
          /\ last_stable = from(Arg)

\* C9 witness: such a promotion at a clock time after construction
C9_Witness ==
  /\ IsUpdate /\ debounce_time = 0 /\ ret.tag = "Transitioned"
  /\ call.at > hist.constructed_at
  /\ try_get(pre.last_stable) # None

\* C10 as stated: with debounce_time = 0 the first update carrying a value
\* other than the stable one does not promote it
C10_Original ==
  (IsUpdate /\ debounce_time = 0 /\ try_get(pre.last_stable) # call.arg) =>
     /\ ret.tag # "Transitioned"
     /\ last_stable = pre.last_stable

\* C10: with debounce_time = 0 the first update carrying a value other than
\* the stable one promotes it, and the next update carrying the same value
\* returns Stable.
C10_PromotedAtOnce ==
  (IsUpdate /\ debounce_time = 0) =>
     /\ try_get(pre.last_stable) # call.arg =>
          ret.tag = "Transitioned" /\ try_get(last_stable) = call.arg
     /\ try_get(pre.last_value) = call.arg =>
          ret = Stable(Arg) /\ try_get(last_stable) = call.arg

\* C10 witness: the second consecutive update of a value promoted by the first
C10_Witness ==
  /\ IsUpdate /\ debounce_time = 0 /\ ret.tag = "Stable"
  /\ call.arg # hist.init_value
  /\ hist.run_start < call.at

\* C11: after a return to the stable value a fresh departure to V1 restarts
\* the wait: the update is Unstable until debounce_time after the start of
\* the fresh run, also when debounce_time has elapsed since the earlier
\* departure to V1; and the calls of the scenario of the spec return the
\* outcomes the spec gives.
C11_FreshDeparture ==
  /\ (IsUpdate /\ hist.back_value = call.arg
        /\ try_get(pre.last_stable) # call.arg) =>
       /\ ret.tag = "Transitioned" =>
            call.ret_at >= hist.run_start + debounce_time
       /\ call.ret_at < hist.run_start + debounce_time =>
            ret = Unstable(deref(pre.last_stable), from(Arg))
  /\ (IsUpdate /\ hist.scn > 0) => ret = ScenarioOutcomes[hist.scn]

\* C11 witness: with D = 10 ms, V1 is still Unstable when D has elapsed
\* since its earlier departure but not since the fresh one
C11_Witness ==
  /\ IsUpdate /\ debounce_time = ScenarioD
  /\ hist.back_value = call.arg /\ ret.tag = "Unstable"
  /\ hist.back_start < hist.run_start
  /\ call.ret_at >= hist.back_start + debounce_time

\* the scenario of the spec has been played to its end
ScenarioPlayed == IsUpdate /\ hist.scn = Len(ScenarioCalls)

\* C12: a call that returns Transitioned{V} leaves last_stable = last_value
\* = V, and every update(V) or read() after it returns Stable{V} as long as
\* no update carries another value; so no two consecutive calls with the
\* same raw value both return Transitioned.
C12_OneCallAnnotation ==
  /\ ((IsUpdate \/ IsRead) /\ ret.tag = "Transitioned") =>
       /\ try_get(last_stable) = Some(ret.stable)
       /\ try_get(last_value) = Some(ret.stable)
  /\ ((IsUpdate \/ IsRead) /\ hist.settled # None /\ hist.since = 1) =>
       /\ ret = Stable(TheValue(hist.settled))
       /\ try_get(last_stable) = hist.settled
       /\ try_get(last_value) = hist.settled

\* C12 witness: an update with the value that the call before it promoted
C12_Witness ==
  /\ IsUpdate /\ hist.settled = call.arg /\ hist.since = 1
  /\ debounce_time > 0 /\ ret.tag = "Stable"
  /\ hist.settled # hist.init_value

IsInputRead == call.op = "DebouncedInput::read"

\* C13: DebouncedInput::new reads the source once and seeds last_stable =
\* last_value with the value read; DebouncedInput::read reads the source
\* once and returns the outcome, and leaves the fields, that update gives
\* for the value read on a Known debouncer at the same clock readings.
C13_AdapterComposition ==
  /\ (owner # TimedDebouncer /\ call.op = "new") =>
       /\ call.source_reads = 1
       /\ variant = InitializedValue
       /\ Some(last_stable) = hist.init_value
       /\ Some(last_value) = hist.init_value
       /\ last_change_time = hist.constructed_at
  /\ IsInputRead =>
       LET u == update(pre, Arg, call.at, call.ret_at)
       IN /\ call.source_reads = 1
          /\ variant = InitializedValue
          /\ ret = u.state
          /\ Self = u.self
          /\ call.now_calls = u.nows

\* C13 witness: a DebouncedInput::read that promoted the value read
C13_Witness ==
  /\ IsInputRead /\ debounce_time > 0 /\ ret.tag = "Transitioned"
  /\ Some(ret.previous_stable) = hist.init_value
  /\ call.at > hist.run_start

\* C14: read_value() does what one read() does and returns the stable
\* component of its outcome: the promoted value when the read promotes,
\* else the unchanged stable value (None before the first promotion of an
\* Unknown-capable debouncer); this is what read_stable() returns next.
C14_ReadValue ==
  call.op = "read_value" =>
    LET r == read(pre, call.at, call.at)
    IN /\ Self = r.self /\ call.now_calls = r.nows /\ call.inner = r.state.tag
       /\ ret = [tag |-> "Value", option |-> read_stable(Self)]
       /\ call.inner = "Transitioned" =>
            /\ ret.option = deref(pre.last_value)
            /\ last_stable # pre.last_stable
       /\ call.inner # "Transitioned" =>
            /\ ret.option = deref(pre.last_stable)
            /\ last_stable = pre.last_stable

\* C14 witness: read_value() promoted the first value of an Unknown-capable
\* debouncer
C14_Witness ==
  /\ call.op = "read_value" /\ call.inner = "Transitioned"
  /\ variant = UninitializedValue /\ debounce_time > 0
  /\ pre.last_stable = None

\* C15: in an Unknown-capable debouncer last_value holds a value from the
\* first update on and last_stable from the first promotion on, and no call
\* takes a held value away.
C15_NoReversion ==
  /\ [](variant = UninitializedValue =>
          /\ hist.seen => last_value # None
          /\ hist.promoted # None => last_stable # None)
  /\ [][variant = UninitializedValue =>
          /\ last_value # None => last_value' # None
          /\ last_stable # None => last_stable' # None]_vars

\* C15 witness: a read of an Unknown-capable debouncer that held a stable
\* and a different raw value
C15_Witness ==
  /\ variant = UninitializedValue /\ IsRead
  /\ pre.last_stable # None /\ pre.last_value # pre.last_stable
  /\ last_stable # None /\ last_value # None

\* C16: update(v) with v the recorded raw value and not the stable value
\* keeps last_change_time and last_value, reads the clock once, and promotes
\* exactly when that reading is debounce_time or more after the unchanged
\* last_change_time.
C16_HoldKeepsTimer ==
  (IsUpdate /\ try_get(pre.last_value) = call.arg
     /\ try_get(pre.last_stable) # call.arg) =>
     /\ last_change_time = pre.last_change_time
     /\ last_value = pre.last_value
     /\ call.now_calls = 1 /\ clock = call.at
     /\ ret.tag = "Transitioned" <=>
          call.at >= pre.last_change_time + debounce_time
     /\ ret.tag = "Unstable" <=>
          call.at < pre.last_change_time + debounce_time

\* C16 witness: a repeated update with the pending value inside the window,
\* after the clock has advanced
C16_Witness ==
  /\ IsUpdate /\ try_get(pre.last_value) = call.arg
  /\ try_get(pre.last_stable) # call.arg
  /\ ret.tag = "Unstable"
  /\ call.at > last_change_time

\* C17: with debounce_time > 0 an update whose input differs from the stable
\* value and from the raw value recorded before it (or is the first input
\* of an Unknown-capable debouncer) never returns Transitioned, whatever the
\* time source does between the two clock reads of the call.
C17_NoPromotionOnChange ==
  (IsUpdate /\ debounce_time > 0
     /\ try_get(pre.last_stable) # call.arg
     /\ try_get(pre.last_value) # call.arg) =>
     ret.tag # "Transitioned"

\* the last call read neither the source nor the clock and changed no field
NothingTouched ==
  /\ FieldsUnchanged
  /\ call.source_reads = 0 /\ call.now_calls = 0 /\ clock = call.at

\* C18: the adapter's read_stable(), is_high() and is_low() read no source
\* and no clock and change no field; read_stable() returns the stable
\* component of the outcome of the last DebouncedInput::read (the seed
\* before the first one), is_high() and is_low() whether that is High or Low.
C18_AdapterReadStable ==
  /\ call.op = "DebouncedInput::read_stable" =>
       NothingTouched /\ ret = [tag |-> "Value", option |-> hist.component]
  /\ call.op = "is_high" =>
       NothingTouched /\ ret = [tag |-> "Bool", flag |-> hist.component = PinHigh]
  /\ call.op = "is_low" =>
       NothingTouched /\ ret = [tag |-> "Bool", flag |-> hist.component = PinLow]

\* C18 witness: the adapter's read_stable() after a promotion, while another
\* value read from the source is pending
C18_Witness ==
  /\ call.op = "DebouncedInput::read_stable"
  /\ last_value # last_stable
  /\ Some(last_stable) # hist.init_value

\* C17 with one clock reading per call
C17_OneReading ==
  (IsUpdate /\ debounce_time > 0 /\ call.ret_at = call.at
     /\ try_get(pre.last_stable) # call.arg
     /\ try_get(pre.last_value) # call.arg) =>
     ret.tag # "Transitioned"

\* C19: across update, read and read_value, last_stable changes exactly when
\* the call's outcome is Transitioned; then the new last_stable is the
\* outcome's stable and its previous_stable is the last_stable of before.
C19_StableChangesByPromotion ==
  call.op \in {"update", "read", "read_value"} =>
     /\ last_stable # pre.last_stable <=> call.inner = "Transitioned"
     /\ (IsUpdate \/ IsRead) =>
          /\ call.inner = ret.tag
          /\ ret.tag = "Transitioned" =>
               /\ last_stable = from(ret.stable)
               /\ ret.previous_stable = deref(pre.last_stable)
          /\ ret.tag \in {"Stable", "Unstable"} =>
               last_stable = pre.last_stable

\* C19 witness: a promotion from one stable value to another
C19_Witness ==
  /\ IsUpdate /\ ret.tag = "Transitioned"
  /\ try_get(pre.last_stable) # None
  /\ last_stable # pre.last_stable
  /\ Some(pre.last_stable) # hist.init_value

\* C20: the previous_stable of a Transitioned outcome, when present, is not
\* its stable; the most_recent of an Unstable outcome of update is the input
\* and is not its stable; the value of a Stable outcome is the input of the
\* call and last_stable.
C20_NoDegenerateOutcome ==
  /\ ((IsUpdate \/ IsRead \/ IsInputRead) /\ ret.tag = "Transitioned") =>
       try_get(ret.previous_stable) # Some(ret.stable)
  /\ ((IsUpdate \/ IsInputRead) /\ ret.tag = "Unstable") =>
       /\ try_get(ret.most_recent) = call.arg
       /\ try_get(ret.stable) # try_get(ret.most_recent)
  /\ ((IsUpdate \/ IsRead \/ IsInputRead) /\ ret.tag = "Stable") =>
       /\ try_get(last_stable) = Some(ret.value)
       /\ (IsUpdate \/ IsInputRead) => call.arg = Some(ret.value)
       /\ IsRead => try_get(pre.last_value) = Some(ret.value)

\* C20 witness: a Transitioned outcome of an Unknown-capable debouncer with
\* a previous stable value
C20_Witness ==
  /\ IsUpdate /\ variant = UninitializedValue
  /\ ret.tag = "Transitioned" /\ ret.previous_stable # None

\* ---------------------------------------------------------------- liveness
\* the bare debouncer, as constructed by new or new_unknown
LiveInit == Init /\ owner = TimedDebouncer

\* the calls of the bare debouncer and the ticks of the time source
LiveNext ==
  \/ \E new_value \in Values, d \in 0 .. MaxDrift : Update(new_value, d)
  \/ Read
  \/ ReadValue
  \/ ReadStable
  \/ Tick

\* the bare debouncer under a time source that keeps advancing (up to
\* Horizon, where the model stops the clock); when and how often the
\* debouncer is called is left to the caller
LiveSpec == LiveInit /\ [][LiveNext]_vars /\ WF_vars(Tick)

\* the last step was a call that runs update: update itself, or read or
\* read_value, which run it on last_value
Polled == call.op \in {"update", "read", "read_value"}

\* every update since some update has carried V, and the clock of the model
\* gets debounce_time past the first of them
ConstantInput(V) ==
  /\ hist.run_value = Some(V)
  /\ hist.run_start + debounce_time <= Horizon

\* the last call returned Transitioned{V} or Stable{V} (inside read_value:
\* the read it made did)
Reached(V) ==
  \/ /\ IsUpdate \/ IsRead
     /\ \/ ret.tag = "Transitioned" /\ ret.stable = V
        \/ ret.tag = "Stable" /\ ret.value = V
  \/ /\ call.op = "read_value"
     /\ call.inner \in {"Transitioned", "Stable"}
     /\ try_get(ret.option) = Some(V)

\* last_stable = V, and the last call, if it ran update, returned Stable{V},
\* or Transitioned{V} when it is the call that promoted V and no call was
\* made since
StableOn(V) ==
  /\ try_get(last_stable) = Some(V)
  /\ (IsUpdate \/ IsRead) =>
       \/ ret = Stable(V)
       \/ /\ ret.tag = "Transitioned" /\ ret.stable = V
          /\ hist.settled = Some(V) /\ hist.since = 0
  /\ call.op = "read_value" =>
       /\ try_get(ret.option) = Some(V)
       /\ \/ call.inner = "Stable"
          \/ /\ call.inner = "Transitioned"
             /\ hist.settled = Some(V) /\ hist.since = 0

\* C21: if from some point on every update carries the same value V, calls
\* of update, read or read_value keep being made and the clock keeps
\* advancing, then calls return Transitioned{V} or Stable{V}, and from some
\* point on last_stable = V and every call after the promoting one returns
\* Stable{V}: the debouncer does not stay Unstable for ever.
C21_EventualStabilization ==
  \A V \in Values :
    (<>[]ConstantInput(V) /\ []<>Polled) =>
      ([]<>Reached(V) /\ <>[]StableOn(V))

\* C21 witness: a read that returns Stable{V} once V, not the initial value
\* and carried by every update since one made more than debounce_time
\* before, has been promoted by a call made later than debounce_time after it
C21_Witness ==
  /\ IsRead /\ ret.tag = "Stable"
  /\ hist.run_value = Some(ret.value)
  /\ hist.settled = Some(ret.value) /\ hist.since = 1
  /\ hist.init_value # Some(ret.value)
  /\ debounce_time > 0
  /\ hist.run_start + debounce_time < clock

====
